---- MODULE Spec2Model ----
(***************************************************************************)
(* Board of src/board.py: the rules engine of Ultimate Tic-Tac-Toe.        *)
(* The state is the object's four fields; the operations are the public   *)
(* methods: the two move entry points, the bulk write set_subgrid, the     *)
(* read-only queries, and the checks and the constraint update, which the  *)
(* moves call and which can be called directly.                            *)
(***************************************************************************)
EXTENDS Integers, FiniteSets, Sequences, TLC

VARIABLES
    board,           \* self.board: 9x9 grid, board[row][col] (0, 1 or 2)
    subgrid_wins,    \* self.subgrid_wins: 0 = not won, 1 / 2 = the player
    overall_winner,  \* self.overall_winner: 0 = none, 1 / 2 = the player
    next_subgrid,    \* self.next_subgrid: None or a subgrid index
    last             \* the most recent call: entry point, arguments, outcome

vars == <<board, subgrid_wins, overall_winner, next_subgrid, last>>

\* Python's None as held by self.next_subgrid (no subgrid index is negative).
None == -1

----------------------------------------------------------------------------
(* Pure helpers, computed as the code computes them.                       *)

index_to_position(index, size) == <<index \div size, index % size>>

get_subgrid(b, subgrid_index) ==
    LET row_start == (subgrid_index \div 3) * 3
        col_start == (subgrid_index % 3) * 3
    IN  [r \in 0..2 |-> [c \in 0..2 |-> b[row_start + r][col_start + c]]]

\* Faulty variants of is_valid_move: one forgets the forced subgrid, one
\* also refuses a subgrid that is won and any move once the game has a
\* winner.
is_valid_move_ungated(b, ns, row, col) == b[row][col] = 0
is_valid_move_lockout(b, ns, row, col) ==
    IF ns # None /\ (row \div 3) * 3 + (col \div 3) # ns
    THEN FALSE
    ELSE /\ b[row][col] = 0
         /\ subgrid_wins[(row \div 3) * 3 + (col \div 3)] = 0
         /\ overall_winner = 0

is_valid_move(b, ns, row, col) ==
    IF ns # None /\ (row \div 3) * 3 + (col \div 3) # ns
    THEN FALSE
    ELSE b[row][col] = 0

\* Faulty variant of subgrid_line: the rows are not tested.
subgrid_line_without_rows(subgrid, player) ==
    \/ \E i \in 0..2 : \A j \in 0..2 : subgrid[j][i] = player
    \/ \A i \in 0..2 : subgrid[i][i] = player
    \/ \A i \in 0..2 : subgrid[i][2 - i] = player

\* Faulty variant of subgrid_line: only the first two cells of a row or a
\* column are tested.
subgrid_line_short(subgrid, player) ==
    \/ \E i \in 0..2 :
          \/ \A j \in 0..1 : subgrid[i][j] = player
          \/ \A j \in 0..1 : subgrid[j][i] = player
    \/ \A i \in 0..2 : subgrid[i][i] = player
    \/ \A i \in 0..2 : subgrid[i][2 - i] = player

\* One player's share of check_subgrid_winner: rows and columns, then the
\* main diagonal, then the anti-diagonal.
subgrid_line(subgrid, player) ==
    \/ \E i \in 0..2 :
          \/ \A j \in 0..2 : subgrid[i][j] = player
          \/ \A j \in 0..2 : subgrid[j][i] = player
    \/ \A i \in 0..2 : subgrid[i][i] = player
    \/ \A i \in 0..2 : subgrid[i][2 - i] = player

\* Faulty variant of check_subgrid_winner: only player 1 is tried.
check_subgrid_winner_player1_only(b, wins, subgrid_index) ==
    IF subgrid_line(get_subgrid(b, subgrid_index), 1)
    THEN [wins EXCEPT ![subgrid_index] = 1]
    ELSE wins

\* check_subgrid_winner: player 1 is tried before player 2; the value is
\* subgrid_wins after the call.
check_subgrid_winner(b, wins, subgrid_index) ==
    LET subgrid == get_subgrid(b, subgrid_index)
    IN  IF subgrid_line(subgrid, 1) THEN [wins EXCEPT ![subgrid_index] = 1]
        ELSE IF subgrid_line(subgrid, 2) THEN [wins EXCEPT ![subgrid_index] = 2]
        ELSE wins

is_subgrid_full(b, subgrid_index) ==
    LET subgrid == get_subgrid(b, subgrid_index)
    IN  \A r \in 0..2 : \A c \in 0..2 : subgrid[r][c] # 0

\* Faulty variant of update_next_subgrid: a won subgrid still forces.
update_next_subgrid_ignoring_won(b, wins, row, col) ==
    LET next_subgrid_index == (row % 3) * 3 + (col % 3)
    IN  IF is_subgrid_full(b, next_subgrid_index)
        THEN None
        ELSE next_subgrid_index

\* Faulty variant of update_next_subgrid: a full subgrid still forces.
update_next_subgrid_ignoring_full(b, wins, row, col) ==
    LET n == (row % 3) * 3 + (col % 3)
    IN  IF wins[n] # 0 THEN None ELSE n

\* update_next_subgrid: the value of self.next_subgrid after the call.
update_next_subgrid(b, wins, row, col) ==
    LET n == (row % 3) * 3 + (col % 3)
    IN  IF is_subgrid_full(b, n) \/ wins[n] # 0 THEN None ELSE n

\* Faulty variant of board_line: only the first eight cells of a row or a
\* column are tested.
board_line_eight(b, player) ==
    \/ \E i \in 0..8 :
          \/ \A j \in 0..7 : b[i][j] = player
          \/ \A j \in 0..7 : b[j][i] = player
    \/ \A i \in 0..8 : b[i][i] = player
    \/ \A i \in 0..8 : b[i][8 - i] = player

\* Faulty variant of board_line: the rows are not looked at.
board_line_without_rows(b, player) ==
    \/ \E i \in 0..8 : \A j \in 0..8 : b[j][i] = player
    \/ \A i \in 0..8 : b[i][i] = player
    \/ \A i \in 0..8 : b[i][8 - i] = player

\* The test of check_winner: a row, a column or a diagonal of nine cells
\* all equal to player.
board_line(b, player) ==
    \/ \E i \in 0..8 :
          \/ \A j \in 0..8 : b[i][j] = player
          \/ \A j \in 0..8 : b[j][i] = player
    \/ \A i \in 0..8 : b[i][i] = player
    \/ \A i \in 0..8 : b[i][8 - i] = player

\* check_winner: the value of self.overall_winner after the call.
check_winner(b, winner, player) ==
    IF board_line(b, player) THEN player ELSE winner

----------------------------------------------------------------------------
(* The two mutating entry points.                                          *)

Raise(op, args, value, what) ==
    /\ last' = [op |-> op, args |-> args, value |-> value, result |-> what]
    /\ UNCHANGED <<board, subgrid_wins, overall_winner, next_subgrid>>

\* Faulty variant of update_cell: the value is checked only after the cell
\* has been written.
update_cell_late_check(index, value) ==
    IF ~(0 <= index /\ index < 81)
    THEN Raise("update_cell", <<index>>, value, "IndexRange")
    ELSE
      LET row == index_to_position(index, 9)[1]
          col == index_to_position(index, 9)[2]
      IN  IF ~is_valid_move(board, next_subgrid, row, col)
          THEN Raise("update_cell", <<index>>, value, "InvalidMove")
          ELSE IF value \notin {0, 1, 2}
          THEN /\ board' = [board EXCEPT ![row][col] = value]
               /\ UNCHANGED <<subgrid_wins, overall_winner, next_subgrid>>
               /\ last' = [op |-> "update_cell", args |-> <<index>>,
                           value |-> value, result |-> "CellValue"]
          ELSE
            LET b == [board EXCEPT ![row][col] = value]
                subgrid_index == (row \div 3) * 3 + (col \div 3)
                wins == check_subgrid_winner(b, subgrid_wins, subgrid_index)
            IN  /\ board' = b
                /\ subgrid_wins' = wins
                /\ next_subgrid' = update_next_subgrid(b, wins, row, col)
                /\ overall_winner' = check_winner(b, overall_winner, value)
                /\ last' = [op |-> "update_cell", args |-> <<index>>,
                            value |-> value, result |-> "ok"]

\* Faulty variant of update_cell: the value is checked before the index.
update_cell_value_first(index, value) ==
    IF value \notin {0, 1, 2}
    THEN Raise("update_cell", <<index>>, value, "CellValue")
    ELSE IF ~(0 <= index /\ index < 81)
    THEN Raise("update_cell", <<index>>, value, "IndexRange")
    ELSE
      LET row == index_to_position(index, 9)[1]
          col == index_to_position(index, 9)[2]
      IN  IF ~is_valid_move(board, next_subgrid, row, col)
          THEN Raise("update_cell", <<index>>, value, "InvalidMove")
          ELSE
            LET b == [board EXCEPT ![row][col] = value]
                subgrid_index == (row \div 3) * 3 + (col \div 3)
                wins == check_subgrid_winner(b, subgrid_wins, subgrid_index)
            IN  /\ board' = b
                /\ subgrid_wins' = wins
                /\ next_subgrid' = update_next_subgrid(b, wins, row, col)
                /\ overall_winner' = check_winner(b, overall_winner, value)
                /\ last' = [op |-> "update_cell", args |-> <<index>>,
                            value |-> value, result |-> "ok"]

update_cell(index, value) ==
    IF ~(0 <= index /\ index < 81)
    THEN Raise("update_cell", <<index>>, value, "IndexRange")
    ELSE IF value \notin {0, 1, 2}
    THEN Raise("update_cell", <<index>>, value, "CellValue")
    ELSE
      LET row == index_to_position(index, 9)[1]
          col == index_to_position(index, 9)[2]
      IN  IF ~is_valid_move(board, next_subgrid, row, col)
          THEN Raise("update_cell", <<index>>, value, "InvalidMove")
          ELSE
            LET b == [board EXCEPT ![row][col] = value]
                subgrid_index == (row \div 3) * 3 + (col \div 3)
                wins == check_subgrid_winner(b, subgrid_wins, subgrid_index)
            IN  /\ board' = b
                /\ subgrid_wins' = wins
                /\ next_subgrid' = update_next_subgrid(b, wins, row, col)
                /\ overall_winner' = check_winner(b, overall_winner, value)
                /\ last' = [op |-> "update_cell", args |-> <<index>>,
                            value |-> value, result |-> "ok"]

update_cell_in_subgrid(subgrid_index, subgrid_index_flat, value) ==
    LET args == <<subgrid_index, subgrid_index_flat>> IN
    IF ~(0 <= subgrid_index /\ subgrid_index < 9)
    THEN Raise("update_cell_in_subgrid", args, value, "SubgridRange")
    ELSE IF ~(0 <= subgrid_index_flat /\ subgrid_index_flat < 9)
    THEN Raise("update_cell_in_subgrid", args, value, "SubgridCellRange")
    ELSE IF value \notin {0, 1, 2}
    THEN Raise("update_cell_in_subgrid", args, value, "CellValue")
    ELSE
      LET local_row == index_to_position(subgrid_index_flat, 3)[1]
          local_col == index_to_position(subgrid_index_flat, 3)[2]
          global_row == (subgrid_index \div 3) * 3 + local_row
          global_col == (subgrid_index % 3) * 3 + local_col
      IN  IF ~is_valid_move(board, next_subgrid, global_row, global_col)
          THEN Raise("update_cell_in_subgrid", args, value, "InvalidMove")
          ELSE
            LET b == [board EXCEPT ![global_row][global_col] = value]
                wins == check_subgrid_winner(b, subgrid_wins, subgrid_index)
            IN  /\ board' = b
                /\ subgrid_wins' = wins
                /\ next_subgrid' =
                       update_next_subgrid(b, wins, global_row, global_col)
                /\ overall_winner' = check_winner(b, overall_winner, value)
                /\ last' = [op |-> "update_cell_in_subgrid", args |-> args,
                            value |-> value, result |-> "ok"]

----------------------------------------------------------------------------
(* The read-only methods and check_subgrid_winner, called directly.  The   *)
(* call record holds what the method returns.                              *)

\* Faulty variant of the is_valid_move call: a probe that finds the move
\* valid lifts the constraint.
call_is_valid_move_consuming(row, col) ==
    /\ last' = [op |-> "is_valid_move", args |-> <<row, col>>,
                value |-> None,
                result |-> is_valid_move(board, next_subgrid, row, col)]
    /\ next_subgrid' =
           IF is_valid_move(board, next_subgrid, row, col)
           THEN None ELSE next_subgrid
    /\ UNCHANGED <<board, subgrid_wins, overall_winner>>

call_is_valid_move(row, col) ==
    /\ last' = [op |-> "is_valid_move", args |-> <<row, col>>,
                value |-> None,
                result |-> is_valid_move(board, next_subgrid, row, col)]
    /\ UNCHANGED <<board, subgrid_wins, overall_winner, next_subgrid>>

call_is_subgrid_full(subgrid_index) ==
    /\ last' = [op |-> "is_subgrid_full", args |-> <<subgrid_index>>,
                value |-> None,
                result |-> is_subgrid_full(board, subgrid_index)]
    /\ UNCHANGED <<board, subgrid_wins, overall_winner, next_subgrid>>

call_get_subgrid(subgrid_index) ==
    /\ last' = [op |-> "get_subgrid", args |-> <<subgrid_index>>,
                value |-> None,
                result |-> get_subgrid(board, subgrid_index)]
    /\ UNCHANGED <<board, subgrid_wins, overall_winner, next_subgrid>>

\* Faulty variant of the value check_subgrid_winner returns: player 2 is
\* tried before player 1.
check_subgrid_winner_return_player2_first(b, subgrid_index) ==
    LET subgrid == get_subgrid(b, subgrid_index)
    IN  IF subgrid_line(subgrid, 2) THEN 2
        ELSE IF subgrid_line(subgrid, 1) THEN 1
        ELSE None

\* The value check_subgrid_winner returns: the first player, in the order
\* 1, 2, with a complete line, or None.
check_subgrid_winner_return(b, subgrid_index) ==
    LET subgrid == get_subgrid(b, subgrid_index)
    IN  IF subgrid_line(subgrid, 1) THEN 1
        ELSE IF subgrid_line(subgrid, 2) THEN 2
        ELSE None

call_check_subgrid_winner(subgrid_index) ==
    /\ subgrid_wins' = check_subgrid_winner(board, subgrid_wins, subgrid_index)
    /\ last' = [op |-> "check_subgrid_winner", args |-> <<subgrid_index>>,
                value |-> None,
                result |-> check_subgrid_winner_return(board, subgrid_index)]
    /\ UNCHANGED <<board, overall_winner, next_subgrid>>

\* check_winner called directly, with any value as the player; the call
\* record holds the boolean it returns.
call_check_winner(player) ==
    /\ overall_winner' = check_winner(board, overall_winner, player)
    /\ last' = [op |-> "check_winner", args |-> <<player>>, value |-> None,
                result |-> board_line(board, player)]
    /\ UNCHANGED <<board, subgrid_wins, next_subgrid>>

\* update_next_subgrid called directly; it returns nothing.
call_update_next_subgrid(row, col) ==
    /\ next_subgrid' = update_next_subgrid(board, subgrid_wins, row, col)
    /\ last' = [op |-> "update_next_subgrid", args |-> <<row, col>>,
                value |-> None, result |-> "ok"]
    /\ UNCHANGED <<board, subgrid_wins, overall_winner>>

----------------------------------------------------------------------------
(* The bulk write.  set_subgrid checks the shape of its argument and       *)
(* nothing else: it copies the nine values over the subgrid whatever the   *)
(* cells hold and whatever the constraint is, and leaves subgrid_wins,     *)
(* overall_winner and next_subgrid as they were.  (subgrid_index is taken  *)
(* in 0..8; the code does not check it.)                                   *)

\* Whether a matrix, a function of row then column counted from 0, is 3x3.
IsThreeByThree(subgrid) ==
    /\ DOMAIN subgrid = 0..2
    /\ \A r \in 0..2 : DOMAIN subgrid[r] = 0..2

set_subgrid(subgrid_index, subgrid) ==
    IF ~IsThreeByThree(subgrid)
    THEN Raise("set_subgrid", <<subgrid_index, subgrid>>, None, "SubgridShape")
    ELSE
      LET row_start == (subgrid_index \div 3) * 3
          col_start == (subgrid_index % 3) * 3
      IN  /\ board' =
                [r \in 0..8 |-> [c \in 0..8 |->
                    IF /\ r \in row_start..(row_start + 2)
                       /\ c \in col_start..(col_start + 2)
                    THEN subgrid[r - row_start][c - col_start]
                    ELSE board[r][c]]]
          /\ last' = [op |-> "set_subgrid",
                      args |-> <<subgrid_index, subgrid>>,
                      value |-> None, result |-> "ok"]
          /\ UNCHANGED <<subgrid_wins, overall_winner, next_subgrid>>

----------------------------------------------------------------------------
(* The entry points as functions of the current state: what a call raises  *)
(* or returns, and the four fields it leaves.                              *)

Outcome(result, b, wins, winner, ns) ==
    [result |-> result, board |-> b, subgrid_wins |-> wins,
     overall_winner |-> winner, next_subgrid |-> ns]

\* A raise: nothing was written.
Failure(what) ==
    Outcome(what, board, subgrid_wins, overall_winner, next_subgrid)

update_cell_outcome(index, value) ==
    IF ~(0 <= index /\ index < 81) THEN Failure("IndexRange")
    ELSE IF value \notin {0, 1, 2} THEN Failure("CellValue")
    ELSE
      LET row == index_to_position(index, 9)[1]
          col == index_to_position(index, 9)[2]
      IN  IF ~is_valid_move(board, next_subgrid, row, col)
          THEN Failure("InvalidMove")
          ELSE
            LET b == [board EXCEPT ![row][col] = value]
                subgrid_index == (row \div 3) * 3 + (col \div 3)
                wins == check_subgrid_winner(b, subgrid_wins, subgrid_index)
            IN  Outcome("ok", b, wins,
                        check_winner(b, overall_winner, value),
                        update_next_subgrid(b, wins, row, col))

\* update_cell_in_subgrid with the subgrid's row offset used for the column
\* as well.
update_cell_in_subgrid_outcome_skew(subgrid_index, subgrid_index_flat, value) ==
    IF ~(0 <= subgrid_index /\ subgrid_index < 9)
    THEN Failure("SubgridRange")
    ELSE IF ~(0 <= subgrid_index_flat /\ subgrid_index_flat < 9)
    THEN Failure("SubgridCellRange")
    ELSE IF value \notin {0, 1, 2} THEN Failure("CellValue")
    ELSE
      LET local_row == index_to_position(subgrid_index_flat, 3)[1]
          local_col == index_to_position(subgrid_index_flat, 3)[2]
          global_row == (subgrid_index \div 3) * 3 + local_row
          global_col == (subgrid_index \div 3) * 3 + local_col
      IN  IF ~is_valid_move(board, next_subgrid, global_row, global_col)
          THEN Failure("InvalidMove")
          ELSE
            LET b == [board EXCEPT ![global_row][global_col] = value]
                wins == check_subgrid_winner(b, subgrid_wins, subgrid_index)
            IN  Outcome("ok", b, wins,
                        check_winner(b, overall_winner, value),
                        update_next_subgrid(b, wins, global_row, global_col))

update_cell_in_subgrid_outcome(subgrid_index, subgrid_index_flat, value) ==
    IF ~(0 <= subgrid_index /\ subgrid_index < 9)
    THEN Failure("SubgridRange")
    ELSE IF ~(0 <= subgrid_index_flat /\ subgrid_index_flat < 9)
    THEN Failure("SubgridCellRange")
    ELSE IF value \notin {0, 1, 2} THEN Failure("CellValue")
    ELSE
      LET local_row == index_to_position(subgrid_index_flat, 3)[1]
          local_col == index_to_position(subgrid_index_flat, 3)[2]
          global_row == (subgrid_index \div 3) * 3 + local_row
          global_col == (subgrid_index % 3) * 3 + local_col
      IN  IF ~is_valid_move(board, next_subgrid, global_row, global_col)
          THEN Failure("InvalidMove")
          ELSE
            LET b == [board EXCEPT ![global_row][global_col] = value]
                wins == check_subgrid_winner(b, subgrid_wins, subgrid_index)
            IN  Outcome("ok", b, wins,
                        check_winner(b, overall_winner, value),
                        update_next_subgrid(b, wins, global_row, global_col))

----------------------------------------------------------------------------
(* The callers: the arguments the entry points are driven with.            *)

\* Flat index of (row, col), the inverse of index_to_position(index, 9).
At(row, col) == row * 9 + col

\* The first n entries of a sequence of cells, as a set.
Prefix(cells, n) == {cells[i] : i \in 1..n}

\* Cells the general callers address, in the order the bound admits them:
\* the middle row of subgrid 4, the centres of subgrids 3 and 5, then
\* further cells of subgrid 4.
CellOrder == <<At(4, 4), At(4, 3), At(4, 5), At(4, 1), At(4, 7),
               At(3, 4), At(5, 4)>>
NumCells == 5
Indices == Prefix(CellOrder, NumCells) \cup {-1, 81}
Values == {0, 1, 2, 3}
SubgridArgs == {4, -1, 9}
FlatArgs == {4, 5, -1, 9}

\* Faulty variant of the constructor: the play starts forced to subgrid 4.
Init_forced ==
    /\ board = [r \in 0..8 |-> [c \in 0..8 |-> 0]]
    /\ subgrid_wins = [s \in 0..8 |-> 0]
    /\ overall_winner = 0
    /\ next_subgrid = 4
    /\ last = [op |-> "__init__", args |-> <<>>, value |-> 0, result |-> "ok"]

Init ==
    /\ board = [r \in 0..8 |-> [c \in 0..8 |-> 0]]
    /\ subgrid_wins = [s \in 0..8 |-> 0]
    /\ overall_winner = 0
    /\ next_subgrid = None
    /\ last = [op |-> "__init__", args |-> <<>>, value |-> 0, result |-> "ok"]

Next ==
    \/ \E index \in Indices, value \in Values : update_cell(index, value)
    \/ \E s \in SubgridArgs, k \in FlatArgs, value \in Values :
          update_cell_in_subgrid(s, k, value)

Spec == Init /\ [][Next]_vars

----------------------------------------------------------------------------
(* The general callers over fewer cells, for properties that compare the   *)
(* outcome of every possible call in every state.                          *)

NumEntry == 4
EntryIndices == Prefix(CellOrder, NumEntry) \cup {-1, 81}

NextEntry ==
    \/ \E index \in EntryIndices, value \in Values : update_cell(index, value)
    \/ \E s \in SubgridArgs, k \in FlatArgs, value \in Values :
          update_cell_in_subgrid(s, k, value)

SpecEntry == Init /\ [][NextEntry]_vars

----------------------------------------------------------------------------
(* Callers that play inside subgrid 4: whole rows of it go to one player,  *)
(* and the centre cell of each other subgrid sends the play back to it.    *)

\* The centre cell of subgrid s, and the player who marks it.
Centre(s) == At((s \div 3) * 3 + 1, (s % 3) * 3 + 1)
CentrePlayer == <<2, 2, 1, 1, 0, 1, 2, 1, 2>>

\* Flat index of local cell k of subgrid 4.
Sub4(k) == At(3 + (k \div 3), 3 + (k % 3))

\* The rows of subgrid 4 that are played, and the player of each row.
SubRows == 2
RowPlayer == <<1, 2, 1>>
SubLocals == 0..(3 * SubRows - 1)

SubCellMoves == {<<k, RowPlayer[(k \div 3) + 1]>> : k \in SubLocals}

SubMoves ==
    {<<Sub4(m[1]), m[2]>> : m \in SubCellMoves}
        \cup {<<Centre(s), CentrePlayer[s + 1]>> : s \in SubLocals \ {4}}

NextSub ==
    \/ \E m \in SubMoves : update_cell(m[1], m[2])
    \/ \E m \in SubCellMoves : update_cell_in_subgrid(4, m[1], m[2])

SpecSub == Init /\ [][NextSub]_vars

----------------------------------------------------------------------------
(* Callers that play inside subgrid 4 through update_cell and, between the *)
(* moves, call the read-only methods and check_subgrid_winner.             *)

QueryCells == {<<4, 4>>, <<3, 3>>, <<1, 1>>}
QuerySubgrids == {4, 0}

NextQuery ==
    \/ \E m \in SubMoves : update_cell(m[1], m[2])
    \/ \E x \in QueryCells : call_is_valid_move(x[1], x[2])
    \/ \E s \in QuerySubgrids : call_is_subgrid_full(s)
    \/ \E s \in QuerySubgrids : call_get_subgrid(s)
    \/ \E s \in QuerySubgrids : call_check_subgrid_winner(s)

SpecQuery == Init /\ [][NextQuery]_vars

----------------------------------------------------------------------------
(* Callers that open the game: either player marks any cell of the board,  *)
(* for the first moves only.                                               *)

NumOpening == 1
Marks == Cardinality({x \in (0..8) \X (0..8) : board[x[1]][x[2]] # 0})

NextOpening ==
    /\ Marks < NumOpening
    /\ \E index \in 0..80, value \in {1, 2} : update_cell(index, value)

SpecOpening == Init /\ [][NextOpening]_vars

----------------------------------------------------------------------------
(* Two players who take turns inside subgrid 4: every call is a legal move *)
(* and is made by the player who did not make the previous one; either     *)
(* player may open.                                                        *)

NextTurns ==
    \E m \in SubMoves :
        /\ m[2] # last.value
        /\ is_valid_move(board, next_subgrid,
                         index_to_position(m[1], 9)[1],
                         index_to_position(m[1], 9)[2])
        /\ update_cell(m[1], m[2])

SpecTurns == Init /\ [][NextTurns]_vars

----------------------------------------------------------------------------
(* Callers that use the whole public interface: moves at a few cells, bulk *)
(* writes of subgrids 4 and 8, and direct calls of check_subgrid_winner,   *)
(* check_winner and update_next_subgrid.                                   *)

\* The matrix with the given rows.
Matrix(rows) ==
    [r \in 0..(Len(rows) - 1) |->
        [c \in 0..(Len(rows[r + 1]) - 1) |-> rows[r + 1][c + 1]]]

\* Bulk arguments: an empty subgrid, a single mark of player 2 in the top
\* right corner, a top row of player 1, that row above a row of player 2, a
\* subgrid full of player 2, and a matrix of the wrong shape.
BulkGrids ==
    {Matrix(<<<<0, 0, 0>>, <<0, 0, 0>>, <<0, 0, 0>>>>),
     Matrix(<<<<0, 0, 2>>, <<0, 0, 0>>, <<0, 0, 0>>>>),
     Matrix(<<<<1, 1, 1>>, <<0, 0, 0>>, <<0, 0, 0>>>>),
     Matrix(<<<<1, 1, 1>>, <<2, 2, 2>>, <<0, 0, 0>>>>),
     Matrix(<<<<2, 2, 2>>, <<2, 2, 2>>, <<2, 2, 2>>>>),
     Matrix(<<<<0, 0, 0>>, <<0, 0, 0>>>>)}
BulkSubgrids == {4, 8}

\* Cells the moves address, in the order the bound admits them.
BulkOrder == <<At(4, 4), At(5, 3), At(0, 0), At(8, 8)>>
NumBulk == 3

NextBulk ==
    \/ \E s \in BulkSubgrids, g \in BulkGrids : set_subgrid(s, g)
    \/ \E index \in Prefix(BulkOrder, NumBulk), value \in {1, 2} :
          update_cell(index, value)
    \/ call_check_subgrid_winner(4)
    \/ \E p \in {0, 1, 2} : call_check_winner(p)
    \/ \E x \in {<<4, 4>>, <<8, 8>>} : call_update_next_subgrid(x[1], x[2])

SpecBulk == Init /\ [][NextBulk]_vars

----------------------------------------------------------------------------
(* Callers that fill subgrid 4 completely.                                 *)

\* The player who marks local cell k of subgrid 4; filled this way the
\* subgrid holds no line:   1 2 1 / 1 2 2 / 2 1 1.
DrawPlayer == <<1, 2, 1, 1, 2, 2, 2, 1, 1>>

\* Local cells of subgrid 4 that either player may mark, in the order the
\* bound admits them (the first allows a top row of 1).
AltOrder == <<1, 3, 4>>
NumAlt == 1

FullMoves ==
    {<<Sub4(k), DrawPlayer[k + 1]>> : k \in 0..8}
        \cup {<<Sub4(k), v>> : k \in Prefix(AltOrder, NumAlt), v \in {1, 2}}
        \cup {<<Centre(s), CentrePlayer[s + 1]>> : s \in (0..8) \ {4}}

NextFull == \E m \in FullMoves : update_cell(m[1], m[2])

SpecFull == Init /\ [][NextFull]_vars

----------------------------------------------------------------------------
(* Callers that play out full-board lines: player 1 along row 4, player 2  *)
(* along row 1 (the empty value too at its middle cell), and player 2 at   *)
(* a few spare cells.                                                      *)

SpareOrder == <<At(3, 4), At(7, 7)>>
NumSpare == 1

LineMoves ==
    {<<At(4, c), 1>> : c \in 0..8}
        \cup {<<At(1, c), 2>> : c \in 0..8}
        \cup {<<i, 2>> : i \in Prefix(SpareOrder, NumSpare)}
        \cup {<<At(1, 4), 0>>}

NextLine == \E m \in LineMoves : update_cell(m[1], m[2])

SpecLine == Init /\ [][NextLine]_vars

----------------------------------------------------------------------------
(* Vocabulary of the properties.                                           *)

Fields == <<board, subgrid_wins, overall_winner, next_subgrid>>

Calls == {"update_cell", "update_cell_in_subgrid"}

\* Whether the position arguments of the recorded call l are in range.
InRange(l) ==
    IF l.op = "update_cell" THEN l.args[1] \in 0..80
    ELSE l.args[1] \in 0..8 /\ l.args[2] \in 0..8

\* The cell the recorded call l addresses.
CallRow(l) ==
    IF l.op = "update_cell" THEN l.args[1] \div 9
    ELSE (l.args[1] \div 3) * 3 + (l.args[2] \div 3)
CallCol(l) ==
    IF l.op = "update_cell" THEN l.args[1] % 9
    ELSE (l.args[1] % 3) * 3 + (l.args[2] % 3)

SubgridOf(row, col) == (row \div 3) * 3 + (col \div 3)
LocalOf(row, col) == (row % 3) * 3 + (col % 3)

AllCells == (0..8) \X (0..8)
SubgridCells(s) == {x \in AllCells : SubgridOf(x[1], x[2]) = s}

\* The 8 lines of subgrid s and the 20 lines of the whole board, as sets of
\* cells.
SubgridLines(s) ==
    LET r0 == (s \div 3) * 3
        c0 == (s % 3) * 3
    IN  {{<<r0 + i, c0 + j>> : j \in 0..2} : i \in 0..2}
          \cup {{<<r0 + j, c0 + i>> : j \in 0..2} : i \in 0..2}
          \cup {{<<r0 + i, c0 + i>> : i \in 0..2},
                {<<r0 + i, c0 + 2 - i>> : i \in 0..2}}
BoardLines ==
    {{<<i, j>> : j \in 0..8} : i \in 0..8}
      \cup {{<<j, i>> : j \in 0..8} : i \in 0..8}
      \cup {{<<i, i>> : i \in 0..8}, {<<i, 8 - i>> : i \in 0..8}}

Holds(b, lines, p) == \E L \in lines : \A x \in L : b[x[1]][x[2]] = p

\* The constraint a move at (row, col) leaves, read off grid b and statuses w.
Constraint(b, w, row, col) ==
    LET t == LocalOf(row, col)
    IN  IF (\E x \in SubgridCells(t) : b[x[1]][x[2]] = 0) /\ w[t] = 0
        THEN t ELSE None

\* Whether (row, col) is empty and allowed by the current constraint.
Legal(row, col) ==
    /\ board[row][col] = 0
    /\ next_subgrid = None \/ SubgridOf(row, col) = next_subgrid

----------------------------------------------------------------------------
(* C1. Write-once subgrid status: once subgrid_wins[s] is a player, no     *)
(* later call changes it.  (Refuted under SpecSub: a subgrid recorded for  *)
(* player 2 is re-recorded for player 1 when player 1 later completes a    *)
(* line in it.)                                                            *)
C1_SubgridWriteOnce ==
    [][\A s \in 0..8 :
          subgrid_wins[s] \in {1, 2} => subgrid_wins'[s] = subgrid_wins[s]]_vars

(* C2. Write-once overall winner, for the calls made with a player's mark: *)
(* once overall_winner is a player, such a call neither clears it nor      *)
(* gives it to the other player.  (Refuted under SpecLine.)                *)
C2_OverallWriteOnce ==
    [][(overall_winner \in {1, 2} /\ last'.value \in {1, 2})
          => overall_winner' = overall_winner]_vars

(* C3. Legality gating: update_cell with an in-range index and a value the *)
(* value check admits fails with the invalid-move error, changing nothing, *)
(* whenever the constraint is Forced(s) and the cell lies in another       *)
(* subgrid, and whenever the cell is not Empty.                            *)
C3_LegalityGating ==
    [][LET l == last'
           row == CallRow(l)
           col == CallCol(l)
       IN  (/\ l.op = "update_cell"
            /\ InRange(l)
            /\ l.value \in {0, 1, 2}
            /\ \/ next_subgrid # None /\ SubgridOf(row, col) # next_subgrid
               \/ board[row][col] # 0)
             => l.result = "InvalidMove" /\ UNCHANGED Fields]_vars

\* A call was refused only for lying outside the forced subgrid.
C3_Witness ==
    /\ last.op = "update_cell"
    /\ last.result = "InvalidMove"
    /\ last.value \in {1, 2}
    /\ next_subgrid # None
    /\ SubgridOf(CallRow(last), CallCol(last)) # next_subgrid
    /\ board[CallRow(last)][CallCol(last)] = 0

(* C4. Constraint correctness: after every successful call at (row, col),  *)
(* with t = (row mod 3)*3 + (col mod 3), next_subgrid is t if subgrid t    *)
(* has an Empty cell and no recorded winner in the state after the call,   *)
(* and None otherwise, whatever next_subgrid was before.                   *)
C4_ConstraintCorrectness ==
    [][LET l == last'
       IN  (l.op \in Calls /\ l.result = "ok")
             => next_subgrid' =
                  Constraint(board', subgrid_wins', CallRow(l), CallCol(l))]_vars

\* The move into the centre of subgrid 4 filled that subgrid, which has no
\* winner, and left the next move unconstrained.
C4_Witness ==
    /\ last.op = "update_cell"
    /\ last.result = "ok"
    /\ last.args = <<At(4, 4)>>
    /\ \A x \in SubgridCells(4) : board[x[1]][x[2]] # 0
    /\ subgrid_wins[4] = 0
    /\ next_subgrid = None

(* C5. Atomic failure: a call that fails, for whatever reason, leaves the  *)
(* grid, subgrid_wins, overall_winner and next_subgrid as they were.       *)
C5_AtomicFailure ==
    [][(last'.op \in Calls /\ last'.result # "ok") => UNCHANGED Fields]_vars

\* update_cell refused a value at a cell where a move was legal, on a board
\* that already holds marks.
C5_Witness ==
    /\ last.op = "update_cell"
    /\ last.result = "CellValue"
    /\ InRange(last)
    /\ Legal(CallRow(last), CallCol(last))
    /\ \E x \in AllCells : board[x[1]][x[2]] # 0

\* The cells whose value the step changes.
Changed == {x \in AllCells : board'[x[1]][x[2]] # board[x[1]][x[2]]}

(* C6. Monotonic occupancy: a marked cell never changes, and every         *)
(* successful call changes exactly one cell, from Empty to the supplied    *)
(* value.  (Refuted: update_cell admits the value 0, and a successful call *)
(* with value 0 changes no cell.)                                          *)
C6_MonotonicOccupancy ==
    [][/\ \A x \in AllCells :
            board[x[1]][x[2]] # 0 => board'[x[1]][x[2]] = board[x[1]][x[2]]
       /\ (last'.op \in Calls /\ last'.result = "ok")
            => /\ Changed = {<<CallRow(last'), CallCol(last')>>}
               /\ board[CallRow(last')][CallCol(last')] = 0
               /\ board'[CallRow(last')][CallCol(last')] = last'.value]_vars

(* C7. Invalid player rejected: update_cell with the Empty value 0 at an   *)
(* in-range index fails with the invalid-value error and changes nothing.  *)
(* (Refuted: the value check admits 0, so the call is treated as a move    *)
(* and can change next_subgrid and overall_winner.)                        *)
C7_InvalidPlayerRejected ==
    [][LET l == last'
       IN  (l.op = "update_cell" /\ InRange(l) /\ l.value = 0)
             => l.result = "CellValue" /\ UNCHANGED Fields]_vars

(* C8. Overall win on raw cells: after a successful call by player p, if   *)
(* one of the 20 full-board lines is entirely p's then overall_winner is   *)
(* p, whatever subgrid_wins holds; if none is, overall_winner is what it   *)
(* was before the call.                                                    *)
C8_OverallWinOnCells ==
    [][LET l == last'
       IN  (l.op \in Calls /\ l.result = "ok" /\ l.value \in {1, 2})
             => overall_winner' =
                  IF Holds(board', BoardLines, l.value) THEN l.value
                  ELSE overall_winner]_vars

\* Player 2 completed row 1 and is the overall winner.
C8_Witness ==
    /\ last.op = "update_cell"
    /\ last.result = "ok"
    /\ last.value = 2
    /\ CallRow(last) = 1
    /\ \A c \in 0..8 : board[1][c] = 2
    /\ overall_winner = 2

(* C9 as stated. Subgrid win recording: after a successful call by player  *)
(* p into a subgrid s that was Undecided, subgrid_wins[s] is p if the move *)
(* left one of the 8 lines of s entirely p's and stays 0 otherwise; no     *)
(* other subgrid's status changes.  (Refuted: after set_subgrid has        *)
(* written a line of player 1 into s, which records nothing, a move of     *)
(* player 2 into s records player 1.)                                      *)
C9_Original ==
    [][LET l == last'
           s == SubgridOf(CallRow(l), CallCol(l))
       IN  (/\ l.op \in Calls
            /\ l.result = "ok"
            /\ l.value \in {1, 2}
            /\ subgrid_wins[s] = 0)
             => /\ subgrid_wins'[s] =
                     IF Holds(board', SubgridLines(s), l.value) THEN l.value
                     ELSE 0
                /\ \A u \in (0..8) \ {s} : subgrid_wins'[u] = subgrid_wins[u]]_vars

(* C9 amended. After a successful call by player p into a subgrid s that   *)
(* was Undecided: if s held no complete line before the move,              *)
(* subgrid_wins[s] is p if the move left one of the 8 lines of s entirely  *)
(* p's and stays 0 otherwise; if s held a line that was not recorded (one  *)
(* written by set_subgrid), subgrid_wins[s] is the first of players 1, 2   *)
(* who holds a line in s after the move; no other subgrid's status         *)
(* changes.                                                                *)
C9_SubgridWinRecording ==
    [][LET l == last'
           s == SubgridOf(CallRow(l), CallCol(l))
           lines == SubgridLines(s)
       IN  (/\ l.op \in Calls
            /\ l.result = "ok"
            /\ l.value \in {1, 2}
            /\ subgrid_wins[s] = 0)
             => /\ (\A q \in {1, 2} : ~Holds(board, lines, q))
                     => subgrid_wins'[s] =
                          IF Holds(board', lines, l.value) THEN l.value ELSE 0
                /\ (\E q \in {1, 2} : Holds(board, lines, q))
                     => subgrid_wins'[s] =
                          IF Holds(board', lines, 1) THEN 1 ELSE 2
                /\ \A u \in (0..8) \ {s} : subgrid_wins'[u] = subgrid_wins[u]]_vars

\* Player 2's move completed the anti-diagonal of subgrid 4, which held no
\* line before and is now recorded for player 2.
C9_Witness ==
    /\ last.op \in Calls
    /\ last.result = "ok"
    /\ last.value = 2
    /\ last.args = <<At(5, 3)>>
    /\ \A i \in 0..2 : board[3 + i][5 - i] = 2
    /\ ~Holds(board, SubgridLines(4), 1)
    /\ subgrid_wins[4] = 2

(* C10. No lockout: update_cell with an in-range index and player 1 or 2   *)
(* succeeds exactly when the cell is Empty and the constraint is None or   *)
(* names the cell's subgrid, whether or not that subgrid has a recorded    *)
(* winner or overall_winner is set; the successful call writes the mark    *)
(* and recomputes next_subgrid.                                            *)
C10_NoLockout ==
    [][LET l == last'
           row == CallRow(l)
           col == CallCol(l)
       IN  (l.op = "update_cell" /\ InRange(l) /\ l.value \in {1, 2})
             => /\ (l.result = "ok") <=> Legal(row, col)
                /\ l.result = "ok"
                     => /\ board'[row][col] = l.value
                        /\ next_subgrid' =
                             Constraint(board', subgrid_wins', row, col)]_vars

\* A move into subgrid 4 succeeded after that subgrid had a recorded winner
\* and after overall_winner was set.
C10_Witness ==
    /\ last.op = "update_cell"
    /\ last.result = "ok"
    /\ last.value \in {1, 2}
    /\ last.args = <<At(3, 4)>>
    /\ subgrid_wins[4] # 0
    /\ overall_winner # 0

----------------------------------------------------------------------------
\* The outcome the step's call has according to the entry point's function,
\* and the outcome the step shows.
Expected(l) ==
    IF l.op = "update_cell" THEN update_cell_outcome(l.args[1], l.value)
    ELSE update_cell_in_subgrid_outcome(l.args[1], l.args[2], l.value)
StepOutcome ==
    Outcome(last'.result, board', subgrid_wins', overall_winner',
            next_subgrid')

\* Two outcomes agree: both fail, or both succeed and leave the same fields.
SameOutcome(x, y) ==
    /\ (x.result = "ok") <=> (y.result = "ok")
    /\ [x EXCEPT !.result = "ok"] = [y EXCEPT !.result = "ok"]

\* The flat index of local cell k of subgrid s.
FlatOf(s, k) == ((s \div 3) * 3 + (k \div 3)) * 9 + (s % 3) * 3 + (k % 3)

(* C11. Entry-point equivalence: in every reachable state, for every       *)
(* subgrid s and local cell k in 0..8 and every value v,                   *)
(* update_cell_in_subgrid(s, k, v) and update_cell(FlatOf(s, k), v) both   *)
(* fail, or both succeed and leave identical grid, subgrid_wins,           *)
(* overall_winner and next_subgrid; and every call made has the outcome    *)
(* its function gives.                                                     *)
C11_EntryPointEquivalence ==
    /\ [](\A s \in 0..8, k \in 0..8, v \in Values :
            SameOutcome(update_cell_in_subgrid_outcome(s, k, v),
                        update_cell_outcome(FlatOf(s, k), v)))
    /\ [][last'.op \in Calls => StepOutcome = Expected(last')]_vars

\* update_cell_in_subgrid just wrote player 2's mark at local cell 5 of
\* subgrid 4, on a board where update_cell could have written it too; the
\* play is now sent to subgrid 5.
C11_Witness ==
    /\ last.op = "update_cell_in_subgrid"
    /\ last.args = <<4, 5>>
    /\ last.value = 2
    /\ last.result = "ok"
    /\ board[4][5] = 2
    /\ board[4][4] # 0
    /\ next_subgrid = 5

----------------------------------------------------------------------------
Queries == {"is_valid_move", "is_subgrid_full", "get_subgrid"}

\* What the recorded query l returns on grid b under constraint ns.
Answer(b, ns, l) ==
    IF l.op = "is_valid_move" THEN is_valid_move(b, ns, l.args[1], l.args[2])
    ELSE IF l.op = "is_subgrid_full" THEN is_subgrid_full(b, l.args[1])
    ELSE get_subgrid(b, l.args[1])

(* C12. Queries are read-only: a call of is_valid_move, is_subgrid_full or *)
(* get_subgrid leaves grid, subgrid_wins, overall_winner and next_subgrid  *)
(* unchanged, and what it returned is what the same query returns when     *)
(* asked again in the state it leaves.                                     *)
C12_QueriesReadOnly ==
    [][last'.op \in Queries
         => /\ UNCHANGED Fields
            /\ last'.result = Answer(board', next_subgrid', last')]_vars

\* is_valid_move just refused the empty centre of subgrid 0 because the
\* play is forced to subgrid 4, where both players have marks.
C12_Witness ==
    /\ last.op = "is_valid_move"
    /\ last.args = <<1, 1>>
    /\ last.result = FALSE
    /\ board[1][1] = 0
    /\ next_subgrid = 4
    /\ board[4][3] = 2
    /\ board[3][5] = 1

----------------------------------------------------------------------------
(* C13. Initial state: a new Board has all 81 cells Empty, all 9 subgrid   *)
(* statuses Undecided, no overall winner and no constraint; so a first     *)
(* update_cell by player 1 or 2 at any index 0..80 succeeds, writes the    *)
(* mark and forces the subgrid the cell's local position names.            *)
C13_InitialState ==
    [][last.op = "__init__"
         => /\ \A x \in AllCells : board[x[1]][x[2]] = 0
            /\ \A s \in 0..8 : subgrid_wins[s] = 0
            /\ overall_winner = 0
            /\ next_subgrid = None
            /\ (last'.op = "update_cell" /\ InRange(last')
                  /\ last'.value \in {1, 2})
                 => /\ last'.result = "ok"
                    /\ board'[CallRow(last')][CallCol(last')] = last'.value
                    /\ next_subgrid' =
                         LocalOf(CallRow(last'), CallCol(last'))]_vars

\* Player 1 opened at index 0: the only mark is at (0, 0) and the play is
\* forced to subgrid 0.
C13_Witness ==
    /\ last = [op |-> "update_cell", args |-> <<0>>, value |-> 1,
               result |-> "ok"]
    /\ board[0][0] = 1
    /\ {x \in AllCells : board[x[1]][x[2]] # 0} = {<<0, 0>>}
    /\ next_subgrid = 0

----------------------------------------------------------------------------
(* C14. Out-of-range index rejected: update_cell with a flat index outside *)
(* 0..80 fails with the index-range error in every state and for every     *)
(* value, before the value check, any legality check and any write: the    *)
(* four fields are unchanged.                                              *)
C14_IndexOutOfRange ==
    [][(last'.op = "update_cell" /\ last'.args[1] \notin 0..80)
         => /\ last'.result = "IndexRange"
            /\ UNCHANGED Fields]_vars

\* update_cell(-1, 3) was just refused for its index, not for its value,
\* while the play was forced to a subgrid.
C14_Witness ==
    /\ last = [op |-> "update_cell", args |-> <<-1>>, value |-> 3,
               result |-> "IndexRange"]
    /\ next_subgrid # None
    /\ \E x \in AllCells : board[x[1]][x[2]] = 2

----------------------------------------------------------------------------
(* C15. Forced subgrid always playable: in every reachable state, a forced *)
(* subgrid has an Empty cell and an Undecided status; hence whenever the   *)
(* board has an Empty cell, is_valid_move is true of some position.        *)
C15_ForcedSubgridPlayable ==
    /\ next_subgrid # None
         => /\ \E x \in SubgridCells(next_subgrid) : board[x[1]][x[2]] = 0
            /\ subgrid_wins[next_subgrid] = 0
    /\ (\E x \in AllCells : board[x[1]][x[2]] = 0)
         => \E x \in AllCells : is_valid_move(board, next_subgrid, x[1], x[2])

\* The play is forced to subgrid 4, which has a single Empty cell left.
C15_Witness ==
    /\ last.op = "update_cell"
    /\ last.result = "ok"
    /\ next_subgrid = 4
    /\ Cardinality({x \in SubgridCells(4) : board[x[1]][x[2]] = 0}) = 1
    /\ subgrid_wins[4] = 0

----------------------------------------------------------------------------
(* C16. Recorded subgrid status agrees with the grid: in every reachable   *)
(* state and for every subgrid s, subgrid_wins[s] is non-zero exactly when *)
(* some player holds a complete 3-cell line inside s, and when it is a     *)
(* player, that player holds a complete line inside s.                     *)
C16_StatusAgreesWithGrid ==
    \A s \in 0..8 :
        /\ subgrid_wins[s] # 0
             <=> \E p \in {1, 2} : Holds(board, SubgridLines(s), p)
        /\ subgrid_wins[s] # 0
             => Holds(board, SubgridLines(s), subgrid_wins[s])

\* Subgrid 4 holds a line of each player and is recorded for player 1,
\* while the subgrids around it hold marks and no line.
C16_Witness ==
    /\ Holds(board, SubgridLines(4), 1)
    /\ Holds(board, SubgridLines(4), 2)
    /\ subgrid_wins[4] = 1
    /\ \E s \in (0..8) \ {4} :
          /\ subgrid_wins[s] = 0
          /\ \E x \in SubgridCells(s) : board[x[1]][x[2]] # 0

----------------------------------------------------------------------------
\* What check_subgrid_winner(s) must return on grid b, and the statuses it
\* must leave when they were w: player 1 comes first.
FirstHolder(b, s) ==
    IF Holds(b, SubgridLines(s), 1) THEN 1
    ELSE IF Holds(b, SubgridLines(s), 2) THEN 2
    ELSE None
Recorded(b, w, s) ==
    IF FirstHolder(b, s) = None THEN w
    ELSE [w EXCEPT ![s] = FirstHolder(b, s)]

(* C17. Subgrid check order: check_subgrid_winner returns and records      *)
(* player 1 whenever player 1 holds a complete line in the subgrid, also   *)
(* when player 2 holds one too; player 2 if only player 2 holds one; and   *)
(* returns None and records nothing if neither does.  It does so when      *)
(* called directly and when a successful update_cell calls it on the       *)
(* subgrid just written.                                                   *)
C17_SubgridCheckOrder ==
    [][LET l == last'
       IN  /\ l.op = "check_subgrid_winner"
                => /\ l.result = FirstHolder(board, l.args[1])
                   /\ subgrid_wins' = Recorded(board, subgrid_wins, l.args[1])
                   /\ UNCHANGED <<board, overall_winner, next_subgrid>>
           /\ (l.op = "update_cell" /\ l.result = "ok")
                => subgrid_wins' =
                     Recorded(board', subgrid_wins,
                              SubgridOf(CallRow(l), CallCol(l)))]_vars

\* check_subgrid_winner(4) just returned player 1 on a subgrid in which
\* player 2 holds a complete line as well.
C17_Witness ==
    /\ last.op = "check_subgrid_winner"
    /\ last.args = <<4>>
    /\ last.result = 1
    /\ Holds(board, SubgridLines(4), 1)
    /\ Holds(board, SubgridLines(4), 2)
    /\ subgrid_wins[4] = 1

----------------------------------------------------------------------------
(* C18 as stated. At most one line-holder per subgrid: under legal,        *)
(* strictly alternating play no subgrid holds a complete line of player 1  *)
(* and a complete line of player 2 at the same time.  (Refuted: moves into *)
(* a won subgrid stay legal, and the loser can complete a line there.)     *)
C18_Original ==
    \A s \in 0..8 :
        ~(Holds(board, SubgridLines(s), 1) /\ Holds(board, SubgridLines(s), 2))

(* C18 amended. Under legal, strictly alternating play a subgrid whose     *)
(* status is Undecided holds no complete line, and a move leaves lines of  *)
(* both players in a subgrid only if that subgrid had a recorded winner    *)
(* before the move.                                                        *)
C18_OneLineHolderUntilWon ==
    [][\A s \in 0..8 :
          /\ subgrid_wins[s] = 0
               => \A p \in {1, 2} : ~Holds(board, SubgridLines(s), p)
          /\ (/\ Holds(board', SubgridLines(s), 1)
              /\ Holds(board', SubgridLines(s), 2))
               => subgrid_wins[s] # 0]_vars

\* Player 1 just completed a line in subgrid 4, which was recorded for
\* player 2 and still holds player 2's line.
C18_Witness ==
    /\ last.op = "update_cell"
    /\ last.result = "ok"
    /\ last.value = 1
    /\ SubgridOf(CallRow(last), CallCol(last)) = 4
    /\ Holds(board, SubgridLines(4), 1)
    /\ Holds(board, SubgridLines(4), 2)

----------------------------------------------------------------------------
\* The number of Empty cells of grid b.
EmptyCount(b) == Cardinality({x \in AllCells : b[x[1]][x[2]] = 0})

(* C19. Bounded game length: every successful update_cell call reduces the *)
(* number of Empty cells by exactly one (so that at most 81 calls can      *)
(* succeed and every sequence of successful moves ends).  (Refuted:        *)
(* update_cell admits the value 0; a successful call with value 0 leaves   *)
(* the number unchanged and can be repeated without bound.)                *)
C19_BoundedGameLength ==
    [][(last'.op = "update_cell" /\ last'.result = "ok")
         => EmptyCount(board') = EmptyCount(board) - 1]_vars

----------------------------------------------------------------------------
(* C20. Overall winner is sound: in every reachable state, if              *)
(* overall_winner is player 1 or 2, the grid holds a full-board line (a    *)
(* row, a column or a diagonal of 9 cells) made entirely of that player's  *)
(* marks.                                                                  *)
C20_OverallWinnerSound ==
    overall_winner \in {1, 2} => Holds(board, BoardLines, overall_winner)

\* Both players hold a full row; the recorded winner is player 2, who
\* completed the later one.
C20_Witness ==
    /\ overall_winner = 2
    /\ \A c \in 0..8 : board[1][c] = 2
    /\ \A c \in 0..8 : board[4][c] = 1

====
